---- MODULE Spec2Model ----
(***************************************************************************)
(* Model of the telegoy uploader (src/src/main.rs): file classification,   *)
(* caption assembly, video enrichment (thumbnail, probed metadata) and the *)
(* media-group dispatch of main.                                           *)
(*                                                                         *)
(* Conventions.  Option<T> is a sequence of length <= 1: None is << >>,    *)
(* Some(x) is <<x>>.  A text is a sequence of chunks and concatenation is  *)
(* \o.  An extension is a sequence of one-character strings.               *)
(***************************************************************************)
EXTENDS Integers, Sequences, FiniteSets, TLC

VARIABLES
    files,          \* args.files, fixed for the run
    sidecarFs,      \* content of <stem>.txt on disk, per stem (Option)
    staticCapArg,   \* args.static_caption_path (Option)
    staticFile,     \* content of the file the static caption path names
    mode,           \* "group" (main.rs) or "sequential" (spec section 4.5)
    pc,             \* position of main
    idx,            \* index in files of the file being processed
    input_media_group,
    thumbnail,      \* local of the loop body: result of generate_thumbnail
    meta,           \* local of the loop body: result of get_video_metadata
    lastThumb,      \* stage outcomes the last generate_thumbnail call met
    lastProbe,      \* probe outcomes the last get_video_metadata call met
    temp_file,      \* name of the last temporary frame file (Option)
    disk,           \* temporary frame files that exist on disk
    uuids,          \* number of uuids drawn so far
    toolCalls,      \* external tool invocations: [tool, file index]
    sendCalls,      \* calls issued to the messaging client, in order
    logs,           \* log lines emitted: [level, msg, file index]
    outcomes        \* sequential mode: BatchResult

vars == <<files, sidecarFs, staticCapArg, staticFile, mode, pc, idx,
          input_media_group, thumbnail, meta, lastThumb, lastProbe,
          temp_file, disk, uuids, toolCalls, sendCalls, logs, outcomes>>

----------------------------------------------------------------------------
\* Bounds

MaxFiles == 3

----------------------------------------------------------------------------
\* Option and text helpers

None == << >>
Some(x) == <<x>>
is_some(o) == Len(o) = 1
unwrap_or(o, d) == IF is_some(o) THEN o[1] ELSE d

U16_MAX == 65535

UpperChars == <<"A","B","C","D","E","F","G","H","I","J","K","L","M",
                "N","O","P","Q","R","S","T","U","V","W","X","Y","Z">>
LowerChars == <<"a","b","c","d","e","f","g","h","i","j","k","l","m",
                "n","o","p","q","r","s","t","u","v","w","x","y","z">>

\* char::to_lowercase on the ASCII letters, as a table
LowerOf == [c \in {UpperChars[i] : i \in 1..Len(UpperChars)} |->
               LowerChars[CHOOSE i \in 1..Len(UpperChars) : UpperChars[i] = c]]

to_lowercase_char(c) == IF c \in DOMAIN LowerOf THEN LowerOf[c] ELSE c

to_lowercase(s) == [i \in 1..Len(s) |-> to_lowercase_char(s[i])]

----------------------------------------------------------------------------
\* Classification (main.rs 233-240)

IMAGE_EXTS == { <<"j","p","g">>, <<"j","p","e","g">>, <<"p","n","g">>,
                <<"w","e","b","p">> }
VIDEO_EXTS == { <<"m","p","4">>, <<"m","o","v">>, <<"a","v","i">>,
                <<"m","k","v">> }

ext_of_case_sensitive(path) == unwrap_or(path.ext, << >>)

\* path.extension().and_then(to_str).map(to_lowercase).unwrap_or_default()
ext_of(path) == unwrap_or(IF is_some(path.ext) THEN Some(to_lowercase(path.ext[1]))
                          ELSE None, << >>)

is_image(path) == ext_of(path) \in IMAGE_EXTS
is_video(path) == ext_of(path) \in VIDEO_EXTS

----------------------------------------------------------------------------
\* Captions (main.rs 170-175, 225-227, 244)

TXT == <<"t","x","t">>

with_extension(path, e) == [stem |-> path.stem, ext |-> Some(e)]

\* tokio::fs::read_to_string: Some(content) when the file can be read
read_to_string(fs, path) ==
    IF path.ext = Some(TXT) /\ path.stem \in DOMAIN fs THEN fs[path.stem] ELSE None

get_caption(fs, file_path) ==
    unwrap_or(read_to_string(fs, with_extension(file_path, TXT)), << >>)

DEFAULT_STATIC_CAPTION == <<"static_caption.txt">>

\* let static_cap = args.static_caption_path.unwrap_or("static_caption.txt")
static_cap_of(arg) == unwrap_or(arg, DEFAULT_STATIC_CAPTION)

\* format!("{}{}", file_caption, static_cap)
full_caption(fs, path, arg) == get_caption(fs, path) \o static_cap_of(arg)

----------------------------------------------------------------------------
\* Thumbnail generation (main.rs 48-96)

\* What one call can meet: ffmpeg could be spawned, exited with status 0,
\* left a frame file behind; the frame could be opened, decoded, re-encoded.
\* A stage that is not reached is recorded as FALSE.
ThumbOutcomes ==
    { o \in [spawn : BOOLEAN, exit0 : BOOLEAN, wrote : BOOLEAN,
             open : BOOLEAN, decode : BOOLEAN, encode : BOOLEAN] :
        /\ (~o.spawn => ~o.exit0 /\ ~o.wrote)
        /\ (o.open => o.exit0 /\ o.wrote)
        /\ (o.decode => o.open)
        /\ (o.encode => o.decode) }

\* .status().ok().map_or(false, |s| s.success())
ffmpeg_success(o) == o.spawn /\ o.exit0

\* the closure of .map: the result of write_with_encoder is dropped (.ok();)
\* and the buffer is returned as it is, complete or not
encode_bytes(o) == IF o.encode THEN "jpeg" ELSE "truncated"

bytes_opt_of(o) ==
    IF ffmpeg_success(o)
    THEN IF o.open /\ o.decode THEN Some(encode_bytes(o)) ELSE None
    ELSE None

\* the frame file on disk once ffmpeg has run
disk_after_ffmpeg(d, name, o) == IF o.wrote THEN d \cup {name} ELSE d

remove_file_on_success(d, name, o) == IF ffmpeg_success(o) THEN d \ {name} ELSE d

\* let _ = std::fs::remove_file(temp_file), on every path
remove_file(d, name, o) == d \ {name}

\* bytes_opt.map(|b| InputFile::memory(b).file_name("thumb.jpg"))
generate_thumbnail(o) ==
    IF is_some(bytes_opt_of(o))
    THEN Some([file_name |-> "thumb.jpg", bytes |-> bytes_opt_of(o)[1]])
    ELSE None

----------------------------------------------------------------------------
\* Metadata probing (main.rs 98-168)

\* A stdout line of the stream probe is the integer it spells; -1 and 70000
\* are lines that parse::<u16> rejects.
WTokens == {-1, 0, 640, 70000}

\* The duration probe prints one float, modelled in tenths of a second.
DurTenths == {-15, 0, 4, 5, 15, 24, 700000}

SeqsUpTo2(S) == {<< >>} \cup {<<a>> : a \in S} \cup {<<a, b>> : a \in S, b \in S}

ProbeFailures == { [spawn |-> FALSE, exit0 |-> FALSE, stdout |-> << >>],
                   [spawn |-> TRUE, exit0 |-> FALSE, stdout |-> << >>] }

\* outcomes of the width/height probe: stdout is its lines
WHProbes == ProbeFailures \cup
            { [spawn |-> TRUE, exit0 |-> TRUE, stdout |-> l] : l \in SeqsUpTo2(WTokens) }

\* outcomes of the duration probe: stdout is None when it does not parse as f64
DurProbes == ProbeFailures \cup
             { [spawn |-> TRUE, exit0 |-> TRUE, stdout |-> None] } \cup
             { [spawn |-> TRUE, exit0 |-> TRUE, stdout |-> Some(t)] : t \in DurTenths }

\* str::parse::<u16>
parse_u16(t) == IF t >= 0 /\ t <= U16_MAX THEN Some(t) ELSE None

\* f64::round (half away from zero), on tenths
round_tenths(t) == IF t >= 0 THEN (t + 5) \div 10 ELSE -((5 - t) \div 10)

\* `as u16` on a float saturates
as_u16(n) == IF n < 0 THEN 0 ELSE IF n > U16_MAX THEN U16_MAX ELSE n

\* the k-th line, parsed, kept only if > 0
dimension(lines, k) ==
    IF Len(lines) >= k /\ is_some(parse_u16(lines[k])) /\ parse_u16(lines[k])[1] > 0
    THEN Some(parse_u16(lines[k])[1]) ELSE None

\* if d_f > 0.0 { duration = Some(d_f.round() as u16) }
duration_of(out) ==
    IF is_some(out) /\ out[1] > 0 THEN Some(as_u16(round_tenths(out[1]))) ELSE None

get_video_metadata(wh, dur) ==
    [width    |-> IF wh.spawn /\ wh.exit0 THEN dimension(wh.stdout, 1) ELSE None,
     height   |-> IF wh.spawn /\ wh.exit0 THEN dimension(wh.stdout, 2) ELSE None,
     duration |-> IF dur.spawn /\ dur.exit0 THEN duration_of(dur.stdout) ELSE None]

NoMeta == [width |-> None, height |-> None, duration |-> None]

----------------------------------------------------------------------------
\* Inputs of a run

JPG == <<"j","p","g">>
JPG_UPPER == <<"J","P","G">>
MP4 == <<"m","p","4">>
MKV_MIXED == <<"M","k","V">>

Stems == {"a", "b"}

Paths == { [stem |-> "a", ext |-> Some(JPG)],
           [stem |-> "a", ext |-> Some(JPG_UPPER)],
           [stem |-> "b", ext |-> Some(MP4)],
           [stem |-> "b", ext |-> Some(MKV_MIXED)],
           [stem |-> "a", ext |-> Some(TXT)],
           [stem |-> "b", ext |-> None] }

VideoPaths == { p \in Paths : is_some(p.ext) /\ p.ext[1] \in {MP4, MKV_MIXED} }

\* clap: files is `required = true`, so the list is never empty
FileLists(S) == UNION { [1..n -> S] : n \in 1..MaxFiles }

SidecarTexts == { None, Some(<<"hello ">>) }
StaticArgs == { None, Some(<<"cap.txt">>) }
StaticTexts == { <<"#batch">> }

\* Tool outcomes drawn during a whole run: every tool works or cannot be spawned
RunThumbOutcomes ==
    { o \in ThumbOutcomes : ~o.spawn \/ (o.wrote /\ o.encode) }
RunProbes ==
    { pr \in WHProbes \X DurProbes :
        \/ ~pr[1].spawn /\ ~pr[2].spawn
        \/ /\ pr[1].exit0 /\ pr[1].stdout = <<640, 640>>
           /\ pr[2].exit0 /\ pr[2].stdout = Some(15) }

----------------------------------------------------------------------------
\* State machine

InitRun(m, lists, args) ==
    /\ files \in lists
    /\ sidecarFs \in [Stems -> SidecarTexts]
    /\ staticCapArg \in args
    /\ staticFile \in StaticTexts
    /\ mode = m
    /\ pc = "loop"
    /\ idx = 1
    /\ input_media_group = << >>
    /\ thumbnail = None
    /\ meta = NoMeta
    /\ lastThumb = None
    /\ lastProbe = None
    /\ temp_file = None
    /\ disk = {}
    /\ uuids = 0
    /\ toolCalls = {}
    /\ sendCalls = << >>
    /\ logs = {}
    /\ outcomes = << >>

Init == InitRun("group", FileLists(Paths), StaticArgs)

inputs == <<files, sidecarFs, staticCapArg, staticFile, mode>>
locals == <<thumbnail, meta, lastThumb, lastProbe>>
tools == <<temp_file, disk, uuids, toolCalls>>

Current == files[idx]
InLoop == pc = "loop" /\ idx <= Len(files)

caption_always(group, cap) == Some(cap)

\* if input_media_group.is_empty() { media = media.caption(full_caption) }
caption_for(group, cap) == IF Len(group) = 0 THEN Some(cap) ELSE None

\* InputMediaPhoto::new(input_file), main.rs 247-252
PhotoItem(path, cap) ==
    [kind |-> "Photo", media |-> path, caption |-> cap, thumbnail |-> None,
     width |-> None, height |-> None, duration |-> None,
     supports_streaming |-> None]

\* InputMediaVideo::new(input_file).supports_streaming(true), main.rs 260-279
VideoItem(path, cap, thumb, m) ==
    [kind |-> "Video", media |-> path, caption |-> cap, thumbnail |-> thumb,
     width |-> m.width, height |-> m.height, duration |-> m.duration,
     supports_streaming |-> Some(TRUE)]

\* main.rs 246-252
ProcessImage ==
    /\ mode = "group" /\ InLoop /\ is_image(Current)
    /\ input_media_group' =
         Append(input_media_group,
                PhotoItem(Current, caption_for(input_media_group,
                              full_caption(sidecarFs, Current, staticCapArg))))
    /\ idx' = idx + 1
    /\ UNCHANGED <<inputs, pc, locals, tools, sendCalls, logs, outcomes>>

\* main.rs 253-257 with 48-96
GenerateThumbnail(Outs) ==
    /\ InLoop /\ ~is_image(Current) /\ is_video(Current)
    /\ \E o \in Outs :
         /\ thumbnail' = generate_thumbnail(o)
         /\ lastThumb' = Some(o)
         /\ disk' = remove_file(disk_after_ffmpeg(disk, uuids + 1, o), uuids + 1, o)
    /\ temp_file' = Some(uuids + 1)
    /\ uuids' = uuids + 1
    /\ toolCalls' = toolCalls \cup {[tool |-> "ffmpeg", file |-> idx]}
    /\ pc' = "meta"
    /\ UNCHANGED <<inputs, idx, input_media_group, meta, lastProbe, sendCalls,
                   logs, outcomes>>

\* main.rs 258 with 98-168
GetVideoMetadata(Probes) ==
    /\ pc = "meta"
    /\ \E pr \in Probes :
         /\ meta' = get_video_metadata(pr[1], pr[2])
         /\ lastProbe' = Some([wh |-> pr[1], dur |-> pr[2]])
    /\ toolCalls' = toolCalls \cup {[tool |-> "ffprobe", file |-> idx]}
    /\ pc' = "push"
    /\ UNCHANGED <<inputs, idx, input_media_group, thumbnail, lastThumb,
                   temp_file, disk, uuids, sendCalls, logs, outcomes>>

ClearLocals ==
    /\ thumbnail' = None
    /\ meta' = NoMeta
    /\ lastThumb' = None
    /\ lastProbe' = None

PushVideoIfEnriched ==
    /\ mode = "group" /\ pc = "push"
    /\ input_media_group' =
         IF is_some(thumbnail) /\ is_some(meta.width)
         THEN Append(input_media_group,
                     VideoItem(Current, caption_for(input_media_group,
                                   full_caption(sidecarFs, Current, staticCapArg)),
                               thumbnail, meta))
         ELSE input_media_group
    /\ ClearLocals
    /\ idx' = idx + 1
    /\ pc' = "loop"
    /\ UNCHANGED <<inputs, tools, sendCalls, logs, outcomes>>

\* main.rs 260-279
PushVideo ==
    /\ mode = "group" /\ pc = "push"
    /\ input_media_group' =
         Append(input_media_group,
                VideoItem(Current, caption_for(input_media_group,
                              full_caption(sidecarFs, Current, staticCapArg)),
                          thumbnail, meta))
    /\ ClearLocals
    /\ idx' = idx + 1
    /\ pc' = "loop"
    /\ UNCHANGED <<inputs, tools, sendCalls, logs, outcomes>>

\* main.rs 280-282
SkipFile ==
    /\ InLoop /\ ~is_image(Current) /\ ~is_video(Current)
    /\ logs' = logs \cup {[level |-> "warn", msg |-> "Skipping unsupported file type",
                           file |-> idx]}
    /\ idx' = idx + 1
    /\ UNCHANGED <<inputs, pc, input_media_group, locals, tools, sendCalls, outcomes>>

NoValidMediaSendsAnyway ==
    /\ mode = "group" /\ pc = "loop" /\ idx > Len(files)
    /\ Len(input_media_group) = 0
    /\ sendCalls' = Append(sendCalls, [method |-> "sendMediaGroup", file |-> 0,
                                       media |-> input_media_group, ok |-> FALSE])
    /\ pc' = "done"
    /\ UNCHANGED <<inputs, idx, input_media_group, locals, tools, logs, outcomes>>

\* main.rs 285-288
NoValidMedia ==
    /\ mode = "group" /\ pc = "loop" /\ idx > Len(files)
    /\ Len(input_media_group) = 0
    /\ logs' = logs \cup {[level |-> "error", msg |-> "No valid media found to send.",
                           file |-> 0]}
    /\ pc' = "done"
    /\ UNCHANGED <<inputs, idx, input_media_group, locals, tools, sendCalls, outcomes>>

SendMediaGroupRetry ==
    /\ mode = "group" /\ pc = "loop" /\ idx > Len(files)
    /\ Len(input_media_group) > 0
    /\ \E ok \in BOOLEAN :
         /\ sendCalls' = Append(sendCalls, [method |-> "sendMediaGroup", file |-> 0,
                                            media |-> input_media_group, ok |-> ok])
         /\ pc' = IF ok \/ Len(sendCalls) >= 1 THEN "done" ELSE "loop"
    /\ UNCHANGED <<inputs, idx, input_media_group, locals, tools, logs, outcomes>>

\* main.rs 290-295
SendMediaGroup ==
    /\ mode = "group" /\ pc = "loop" /\ idx > Len(files)
    /\ Len(input_media_group) > 0
    /\ \E ok \in BOOLEAN :
         /\ sendCalls' = Append(sendCalls, [method |-> "sendMediaGroup", file |-> 0,
                                            media |-> input_media_group, ok |-> ok])
         /\ logs' = logs \cup
              {IF ok THEN [level |-> "info", msg |-> "Successfully sent media group!",
                           file |-> 0]
                     ELSE [level |-> "error", msg |-> "Failed to send media group",
                           file |-> 0]}
    /\ pc' = "done"
    /\ UNCHANGED <<inputs, idx, input_media_group, locals, tools, outcomes>>

Next ==
    \/ ProcessImage
    \/ GenerateThumbnail(RunThumbOutcomes)
    \/ GetVideoMetadata(RunProbes)
    \/ PushVideo
    \/ SkipFile
    \/ NoValidMedia
    \/ SendMediaGroup

Spec == Init /\ [][Next]_vars

----------------------------------------------------------------------------
\* One video, every outcome of the external tools

EnrichInit == InitRun("group", { <<p>> : p \in VideoPaths }, StaticArgs)

EnrichNext ==
    \/ GenerateThumbnail(ThumbOutcomes)
    \/ GetVideoMetadata(WHProbes \X DurProbes)
    \/ PushVideo
    \/ SendMediaGroup

EnrichSpec == EnrichInit /\ [][EnrichNext]_vars

----------------------------------------------------------------------------
\* Sequential mode (spec section 4.5): one send per item, a failure is
\* reported and the loop goes on.  Unsupported files are skipped, as in main.

SeqPaths == { [stem |-> "a", ext |-> Some(JPG_UPPER)],
              [stem |-> "b", ext |-> Some(MP4)],
              [stem |-> "a", ext |-> Some(TXT)] }

SeqInit == InitRun("sequential", FileLists(SeqPaths), {None})

\* compose(path, static) of spec section 4.4
compose(fs, path, static) == get_caption(fs, path) \o static

SeqSendRecord(request, ok) ==
    /\ sendCalls' =
         IF ok THEN Append(sendCalls, request)
         ELSE sendCalls \o << request,
                [method |-> "sendMessage", file |-> idx, media |-> << >>, ok |-> TRUE] >>
    /\ outcomes' = Append(outcomes, [file |-> idx, path |-> Current,
                                     outcome |-> IF ok THEN "Sent" ELSE "Failed"])
    /\ pc' = "throttle"

SeqSendPhoto ==
    /\ mode = "sequential" /\ InLoop /\ is_image(Current)
    /\ \E ok \in BOOLEAN :
         SeqSendRecord([method |-> "sendPhoto", file |-> idx,
                        media |-> <<PhotoItem(Current,
                                      Some(compose(sidecarFs, Current, staticFile)))>>,
                        ok |-> ok], ok)
    /\ UNCHANGED <<inputs, idx, input_media_group, locals, tools, logs>>

SeqSendVideo ==
    /\ mode = "sequential" /\ pc = "push"
    /\ \E ok \in BOOLEAN :
         SeqSendRecord([method |-> "sendVideo", file |-> idx,
                        media |-> <<VideoItem(Current,
                                      Some(compose(sidecarFs, Current, staticFile)),
                                      thumbnail, meta)>>,
                        ok |-> ok], ok)
    /\ UNCHANGED <<inputs, idx, input_media_group, locals, tools, logs>>

SeqThrottleAbort ==
    /\ mode = "sequential" /\ pc = "throttle"
    /\ ClearLocals
    /\ idx' = IF outcomes[Len(outcomes)].outcome = "Failed" THEN Len(files) + 1
              ELSE idx + 1
    /\ pc' = "loop"
    /\ UNCHANGED <<inputs, input_media_group, tools, sendCalls, logs, outcomes>>

\* the fixed inter-item delay, after success and after failure alike
SeqThrottle ==
    /\ mode = "sequential" /\ pc = "throttle"
    /\ ClearLocals
    /\ idx' = idx + 1
    /\ pc' = "loop"
    /\ UNCHANGED <<inputs, input_media_group, tools, sendCalls, logs, outcomes>>

SeqDone ==
    /\ mode = "sequential" /\ pc = "loop" /\ idx > Len(files)
    /\ pc' = "done"
    /\ UNCHANGED <<inputs, idx, input_media_group, locals, tools, sendCalls, logs,
                   outcomes>>

SeqNext ==
    \/ SeqSendPhoto
    \/ GenerateThumbnail(RunThumbOutcomes)
    \/ GetVideoMetadata(RunProbes)
    \/ SeqSendVideo
    \/ SkipFile
    \/ SeqThrottle
    \/ SeqDone

SeqSpec == SeqInit /\ [][SeqNext]_vars

----------------------------------------------------------------------------
\* Properties

\* what the properties say about a path, from its extension folded to lower case
Folded(path) == IF is_some(path.ext) THEN to_lowercase(path.ext[1]) ELSE << >>
Classifiable(path) == Folded(path) \in IMAGE_EXTS \cup VIDEO_EXTS
ClassifiableIndexes == { i \in 1..Len(files) : Classifiable(files[i]) }
MediaOf(group) == [i \in 1..Len(group) |-> group[i].media]

\* every media group the run holds or has handed to the client
Groups == {input_media_group} \cup
          { sendCalls[k].media : k \in { n \in 1..Len(sendCalls) :
                                          sendCalls[n].method = "sendMediaGroup" } }

\* C1: in group mode a non-empty media group has exactly one captioned item,
\* the one at position 0; no later item carries a caption.
C1_CaptionOnlyOnFirst ==
    mode = "group" =>
        \A g \in Groups :
            Len(g) > 0 =>
                /\ is_some(g[1].caption)
                /\ \A i \in 2..Len(g) : ~is_some(g[i].caption)

\* a sent group of two or more items whose list began with an unsupported file
C1_Witness ==
    /\ pc = "done" /\ Len(sendCalls) = 1
    /\ ~Classifiable(files[1])
    /\ Len(sendCalls[1].media) >= 2

C3_ExactlyOneGroupSend ==
    mode = "group" =>
        /\ Len(sendCalls) <= 1
        /\ \A k \in 1..Len(sendCalls) :
              /\ sendCalls[k].method = "sendMediaGroup"
              /\ idx > Len(files) /\ pc = "done"
              /\ Len(sendCalls[k].media) = Cardinality(ClassifiableIndexes)
        /\ (pc = "done" /\ ClassifiableIndexes # {}) => Len(sendCalls) = 1

\* the single group send failed and the run is over
C3_Witness ==
    /\ mode = "group" /\ pc = "done"
    /\ Len(sendCalls) = 1 /\ ~sendCalls[1].ok
    /\ Len(sendCalls[1].media) >= 2

AllStagesOk(o) == o.spawn /\ o.exit0 /\ o.open /\ o.decode /\ o.encode

\* C4: generate_thumbnail returns a thumbnail only when extraction, decoding
\* and JPEG re-encoding all succeed, and None whenever one of them fails.
C4_NoThumbnailOnAnyFailure ==
    (pc = "meta" /\ is_some(lastThumb)) =>
        (is_some(thumbnail) <=> AllStagesOk(lastThumb[1]))

\* C5: once generate_thumbnail has returned, the temporary frame file it
\* named is not on disk, whatever the stages did.
C5_TempFileRemoved ==
    is_some(temp_file) => temp_file[1] \notin disk

\* extraction failed after leaving a frame file behind
C5_Witness ==
    /\ pc = "meta" /\ is_some(lastThumb) /\ is_some(temp_file)
    /\ lastThumb[1].wrote /\ ~lastThumb[1].exit0

ProbeOk(pr) == pr.spawn /\ pr.exit0
PositiveOrAbsent(o) == is_some(o) => o[1] > 0

\* C6: get_video_metadata leaves every field absent or positive; a present
\* duration is the probed value rounded to the nearest second, a probed value
\* that rounds to 0 or less gives no duration, and two failed probes give
\* three absent fields.
C6_MetadataPositiveOrAbsent ==
    (pc = "push" /\ is_some(lastProbe)) =>
        LET dur == lastProbe[1].dur
            wh  == lastProbe[1].wh
        IN  /\ PositiveOrAbsent(meta.width)
            /\ PositiveOrAbsent(meta.height)
            /\ PositiveOrAbsent(meta.duration)
            /\ is_some(meta.duration) =>
                 /\ ProbeOk(dur) /\ is_some(dur.stdout)
                 /\ meta.duration[1] = round_tenths(dur.stdout[1])
            /\ (ProbeOk(dur) /\ is_some(dur.stdout)
                  /\ round_tenths(dur.stdout[1]) <= 0) => meta.duration = None
            /\ (~ProbeOk(wh) /\ ~ProbeOk(dur)) => meta = NoMeta

SidecarContent(path) == unwrap_or(sidecarFs[path.stem], << >>)

\* C7: the caption an item carries is the content of the item's own sidecar
\* (empty when there is none) immediately followed by the static caption text.
C7_CaptionIsSidecarThenStatic ==
    mode = "group" =>
        \A g \in Groups : \A i \in 1..Len(g) :
            is_some(g[i].caption) =>
                g[i].caption[1] = SidecarContent(g[i].media) \o staticFile

MediaCalls(i) == { k \in 1..Len(sendCalls) :
                     sendCalls[k].file = i /\ sendCalls[k].method # "sendMessage" }
Notices(i) == { k \in 1..Len(sendCalls) :
                  sendCalls[k].file = i /\ sendCalls[k].method = "sendMessage" }

\* C8: in sequential mode a failed send of item k is reported for item k, and
\* every later item still gets its own send call: at the end of the run each
\* classifiable file has been sent exactly once, failed or not.
C8_FailureIsolated ==
    mode = "sequential" =>
        /\ \A n \in 1..Len(outcomes) :
              /\ Cardinality(MediaCalls(outcomes[n].file)) = 1
              /\ outcomes[n].outcome = "Failed" =>
                   /\ Cardinality(Notices(outcomes[n].file)) = 1
                   /\ pc = "done" =>
                        \A j \in ClassifiableIndexes :
                            j > outcomes[n].file => Cardinality(MediaCalls(j)) = 1
        /\ pc = "done" =>
              [n \in 1..Len(outcomes) |-> outcomes[n].path] =
                  SelectSeq(files, Classifiable)

\* an item failed and a later one was still sent
C8_Witness ==
    /\ mode = "sequential" /\ pc = "done" /\ Len(outcomes) >= 3
    /\ outcomes[2].outcome = "Failed"
    /\ outcomes[3].outcome = "Sent"

\* C9: the media group is the subsequence of the processed input files that
\* are images or videos, in input order, one item per file, whatever the
\* thumbnail, the probes and the sidecars gave.
C9_GroupIsClassifiedSubsequence ==
    mode = "group" =>
        /\ MediaOf(input_media_group) =
              SelectSeq(SubSeq(files, 1, idx - 1), Classifiable)
        /\ \A k \in 1..Len(sendCalls) :
              MediaOf(sendCalls[k].media) = SelectSeq(files, Classifiable)

\* a video without thumbnail, size or duration was sent next to another item,
\* after an unsupported file was skipped
C9_Witness ==
    /\ pc = "done" /\ Len(sendCalls) = 1
    /\ \E i \in 1..Len(files) : ~Classifiable(files[i])
    /\ Len(sendCalls[1].media) >= 2
    /\ \E i \in 1..Len(sendCalls[1].media) :
          LET it == sendCalls[1].media[i]
          IN  /\ it.kind = "Video" /\ it.thumbnail = None
              /\ it.width = None /\ it.duration = None
              /\ sidecarFs[it.media.stem] = None

Enriched(it) ==
    is_some(it.thumbnail) \/ is_some(it.width) \/ is_some(it.height)
        \/ is_some(it.duration)

\* C10: the external tools run only for files whose lower-cased extension is
\* a video extension, no photo item carries a thumbnail, width, height or
\* duration, and the kind of an item follows from the lower-cased extension
\* alone.
C10_EnrichmentOnlyForVideo ==
    mode = "group" =>
        /\ \A tc \in toolCalls : Folded(files[tc.file]) \in VIDEO_EXTS
        /\ \A i \in 1..Len(input_media_group) :
              LET it == input_media_group[i]
              IN  /\ it.kind = "Photo" <=> Folded(it.media) \in IMAGE_EXTS
                  /\ it.kind = "Video" <=> Folded(it.media) \in VIDEO_EXTS
                  /\ it.kind = "Photo" => ~Enriched(it)
        /\ \A i \in 1..(idx - 1) :
              Classifiable(files[i]) =>
                  \E n \in 1..Len(input_media_group) :
                      input_media_group[n].media = files[i]

\* an upper-case .JPG went in as a photo next to an enriched video
C10_Witness ==
    /\ mode = "group" /\ pc = "done" /\ toolCalls # {}
    /\ \E i \in 1..Len(input_media_group) :
          /\ input_media_group[i].kind = "Photo"
          /\ input_media_group[i].media.ext = Some(JPG_UPPER)
    /\ \E i \in 1..Len(input_media_group) :
          /\ input_media_group[i].kind = "Video"
          /\ Enriched(input_media_group[i])

====
